---- MODULE Spec2Model ----
(***************************************************************************)
(* Model of metrics/src/main.rs of hasura-metric-adapter: the common-label *)
(* parser, the resolution of the disabled collectors, and the start-up,    *)
(* cancellation and fail-fast behaviour of main.                           *)
(*                                                                         *)
(* Strings are sequences of one-character strings.  "BAD" stands for a     *)
(* byte sequence of an OsStr that is not valid UTF-8.                      *)
(***************************************************************************)
EXTENDS Integers, Sequences, FiniteSets, TLC

VARIABLES
    value,               \* parse_ref: the OsStr handed to the parser
    parsed,              \* parse_ref: what the call produced
    explicit,            \* config.disabled_collectors as parsed by clap
    hasura_admin,        \* config.hasura_admin.is_some()
    disabled_collectors, \* config.disabled_collectors after lines 142-156
    resolved,            \* main is past line 156
    pc,                  \* main's position
    sig,                 \* the watch channel: "running" | "terminating"
    sends,               \* number of tx.send(()) calls made
    writer,              \* who made the last send
    tx,                  \* who owns the watch::Sender
    listener,            \* state of the spawned signal_handler_ctrl_c task
    sigint,              \* number of SIGINTs delivered to the process
    ctrlc,               \* a SIGINT is pending for the listener's ctrl_c()
    actixSig,            \* a SIGINT is pending for the HttpServer's own handler
    task,                \* state of each future joined by try_join!
    rxOf,                \* whether a task holds a clone of terminate_rx
    regOf,               \* which metric registry a task works on
    res,                 \* value of `res` (line 166)
    errOf,               \* the task whose error `res` carries
    exit                 \* process exit code, -1 while running

parseVars == <<value, parsed>>
cfgVars == <<explicit, hasura_admin, disabled_collectors, resolved>>
runVars == <<pc, sig, sends, writer, tx, listener, sigint, ctrlc, actixSig,
             task, rxOf, regOf, res, errOf, exit>>
vars == <<value, parsed, explicit, hasura_admin, disabled_collectors, resolved,
          pc, sig, sends, writer, tx, listener, sigint, ctrlc, actixSig,
          task, rxOf, regOf, res, errOf, exit>>

(***************************************************************************)
(* Bounds                                                                  *)
(***************************************************************************)
MaxLen == 4
MaxExclude == 3
MaxInterrupts == 2

(***************************************************************************)
(* Common-label parser (lines 51-88)                                       *)
(***************************************************************************)
Alphabet == {"a", "=", ",", "BAD"}

Examples ==
    { <<"e","n","v","=","p","r","o","d",",","t","e","a","m","=","d","a","t","a">>,
      <<"e","n","v">>,
      <<"a","=","1","=","2">> }

RECURSIVE SplitAcc(_, _, _, _)
SplitAcc(s, d, cur, acc) ==
    IF s = <<>> THEN Append(acc, cur)
    ELSE IF Head(s) = d THEN SplitAcc(Tail(s), d, <<>>, Append(acc, cur))
    ELSE SplitAcc(Tail(s), d, Append(cur, Head(s)), acc)

\* Regex::new(d).split(s).collect(): the pieces between the matches of a
\* one-character pattern; always one piece more than there are matches.
RegexSplit(s, d) == SplitAcc(s, d, <<>>, <<>>)

key_value_parser_accepts_many(input) ==
    LET pair == RegexSplit(input, "=")
    IN  IF Len(pair) >= 2
        THEN [ok |-> TRUE, key |-> pair[1], val |-> pair[2]]
        ELSE [ok |-> FALSE, key |-> input, val |-> <<>>]

key_value_parser(input) ==
    LET pair == RegexSplit(input, "=")
    IN  IF Len(pair) = 2
        THEN [ok |-> TRUE, key |-> pair[1], val |-> pair[2]]
        ELSE [ok |-> FALSE, key |-> input, val |-> <<>>]

\* OsStr::to_str(): None when the value is not valid UTF-8
to_str(v) == \A i \in 1..Len(v) : v[i] # "BAD"

\* HashMap::insert: a later pair replaces an earlier one with the same key
MapInsert(map, k, v) == {p \in map : p[1] # k} \cup {<<k, v>>}

\* The iterator chain of parse_ref: tokens are parsed left to right, the
\* first Err is unwrapped (panic), Ok pairs are collected into the map.
RECURSIVE CollectPairs(_, _, _)
CollectPairs(tokens, map, kvs) ==
    IF tokens = <<>> THEN [kind |-> "ok", map |-> map, kvs |-> kvs]
    ELSE LET r == key_value_parser(Head(tokens))
         IN  IF r.ok
             THEN CollectPairs(Tail(tokens), MapInsert(map, r.key, r.val),
                               Append(kvs, r))
             ELSE [kind |-> "panic", map |-> {}, kvs |-> Append(kvs, r)]

parse_ref(v) ==
    IF ~to_str(v) THEN [kind |-> "panic", map |-> {}, kvs |-> <<>>]
    ELSE CollectPairs(RegexSplit(v, ","), {}, <<>>)

NotParsed == [kind |-> "none", map |-> {}, kvs |-> <<>>]

Inputs ==
    UNION {[1..n -> Alphabet] : n \in 0..MaxLen} \cup Examples

\* clap calls MapValueParser::parse_ref on the --common-labels value
ParseRef ==
    /\ parsed.kind = "none"
    /\ parsed' = parse_ref(value)
    /\ UNCHANGED <<value, cfgVars, runVars>>

(***************************************************************************)
(* Disabled collectors (lines 43-49, 142-156)                              *)
(***************************************************************************)
Collectors ==
    {"CronTriggers", "EventTriggers", "ScheduledEvents", "MetadataInconsistency"}

\* derive(PartialOrd, Ord): variants compare in declaration order
Ord(c) ==
    CASE c = "CronTriggers" -> 0
      [] c = "EventTriggers" -> 1
      [] c = "ScheduledEvents" -> 2
      [] c = "MetadataInconsistency" -> 3

admin_collectors ==
    <<"CronTriggers", "EventTriggers", "ScheduledEvents", "MetadataInconsistency">>

RECURSIVE InsertSorted(_, _)
InsertSorted(c, s) ==
    IF s = <<>> THEN <<c>>
    ELSE IF Ord(c) < Ord(Head(s)) THEN <<c>> \o s
    ELSE <<Head(s)>> \o InsertSorted(c, Tail(s))

RECURSIVE SortFrom(_, _)
SortFrom(s, acc) ==
    IF s = <<>> THEN acc ELSE SortFrom(Tail(s), InsertSorted(Head(s), acc))

sort_skipped(s) == s

\* Vec::sort(): stable ascending sort
sort(s) == SortFrom(s, <<>>)

\* Vec::dedup(): removes consecutive repeated elements
RECURSIVE dedup(_)
dedup(s) ==
    IF Len(s) <= 1 THEN s
    ELSE IF s[1] = s[2] THEN dedup(Tail(s))
    ELSE <<Head(s)>> \o dedup(Tail(s))

ExcludeLists == UNION {[1..n -> Collectors] : n \in 0..MaxExclude}

\* lines 142-156: extend_from_slice when there is no admin secret, sort, dedup
resolve_disabled(e, admin) ==
    LET extended == IF ~admin THEN e \o admin_collectors ELSE e
    IN  dedup(sort(extended))

\* main, lines 142-156
ResolveDisabled ==
    /\ ~resolved
    /\ disabled_collectors' = resolve_disabled(explicit, hasura_admin)
    /\ resolved' = TRUE
    /\ UNCHANGED <<explicit, hasura_admin, parseVars, runVars>>

(***************************************************************************)
(* Start-up, cancellation and fail-fast (lines 35-41, 124-135, 162-182)    *)
(***************************************************************************)
Tasks == {"web", "reader", "collector"}

Running == {"binding", "serving", "running"}

\* which futures of try_join! are given terminate_rx.clone() (lines 167-169)
WireRx_collector_unwired == [t \in Tasks |-> t = "reader"]

WireRx == [t \in Tasks |-> t \in {"reader", "collector"}]

\* which registry each future works on: metric_obj is passed to read_file and
\* run_metadata_collector; the /metrics handler calls prometheus::gather(),
\* the process-wide default registry (lines 28, 167-169)
WireReg == [t \in Tasks |-> IF t = "web" THEN "default_registry" ELSE "metric_obj"]

ExitCode_always_zero(r) == 0

\* Termination of `main() -> Result<(), Box<dyn Error>>`
ExitCode(r) == IF r = "ok" THEN 0 ELSE 1

\* signal_handler(): creates the channel, spawns the listener with the sender
SignalHandler ==
    /\ pc = "init"
    /\ pc' = "spawned"
    /\ tx' = "listener"
    /\ listener' = "spawned"
    /\ UNCHANGED <<sig, sends, writer, sigint, ctrlc, actixSig, task, rxOf,
                   regOf, res, errOf, exit, parseVars, cfgVars>>

\* first poll of signal_handler_ctrl_c: ctrl_c() registers the SIGINT handler
ListenerInstall ==
    /\ listener = "spawned"
    /\ pc # "done"
    /\ listener' = "awaiting"
    /\ UNCHANGED <<pc, sig, sends, writer, tx, sigint, ctrlc, actixSig, task,
                   rxOf, regOf, res, errOf, exit, parseVars, cfgVars>>

ListenerFail_sends ==
    /\ listener = "spawned"
    /\ pc # "done"
    /\ listener' = "failed"
    /\ tx' = "dropped"
    /\ sig' = "terminating"
    /\ sends' = sends + 1
    /\ writer' = "listener"
    /\ UNCHANGED <<pc, sigint, ctrlc, actixSig, task, rxOf,
                   regOf, res, errOf, exit, parseVars, cfgVars>>

\* `ctrl_c().await?` returns Err: the task ends, the sender is dropped unsent
ListenerFail ==
    /\ listener = "spawned"
    /\ pc # "done"
    /\ listener' = "failed"
    /\ tx' = "dropped"
    /\ UNCHANGED <<pc, sig, sends, writer, sigint, ctrlc, actixSig, task, rxOf,
                   regOf, res, errOf, exit, parseVars, cfgVars>>

ListenerSend_loops ==
    /\ listener = "awaiting"
    /\ ctrlc
    /\ pc # "done"
    /\ sig' = "terminating"
    /\ sends' = sends + 1
    /\ writer' = "listener"
    /\ ctrlc' = FALSE
    /\ UNCHANGED <<pc, tx, listener, sigint, actixSig, task, rxOf, regOf, res,
                   errOf, exit, parseVars, cfgVars>>

\* lines 126-128: ctrl_c() resolved; send once, return, dropping the sender
ListenerSend ==
    /\ listener = "awaiting"
    /\ ctrlc
    /\ pc # "done"
    /\ sig' = "terminating"
    /\ sends' = sends + 1
    /\ writer' = "listener"
    /\ ctrlc' = FALSE
    /\ listener' = "done"
    /\ tx' = "dropped"
    /\ UNCHANGED <<pc, sigint, actixSig, task, rxOf, regOf, res, errOf, exit,
                   parseVars, cfgVars>>

\* A SIGINT reaches the process.  It is seen by whoever has subscribed at that
\* moment: the listener's ctrl_c() and the handler HttpServer::run() installs.
\* A SIGINT with no handler installed ends the process by the default
\* disposition and is not part of main's run.
Interrupt ==
    /\ pc # "done"
    /\ sigint < MaxInterrupts
    /\ listener \in {"awaiting", "done"} \/ task["web"] = "serving"
    /\ sigint' = sigint + 1
    /\ ctrlc' = (ctrlc \/ listener = "awaiting")
    /\ actixSig' = (actixSig \/ task["web"] = "serving")
    /\ UNCHANGED <<pc, sig, sends, writer, tx, listener, task, rxOf, regOf, res,
                   errOf, exit, parseVars, cfgVars>>

\* lines 164-170: Telemetry::new, then try_join! builds the three futures
StartJoin ==
    /\ pc = "spawned"
    /\ pc' = "join"
    /\ task' = [t \in Tasks |-> IF t = "web" THEN "binding" ELSE "running"]
    /\ rxOf' = WireRx
    /\ regOf' = WireReg
    /\ UNCHANGED <<sig, sends, writer, tx, listener, sigint, ctrlc, actixSig,
                   res, errOf, exit, parseVars, cfgVars>>

\* try_join!: the first future that resolves to Err ends the join at once;
\* the futures still pending are dropped where they stand
FailFast(t) ==
    /\ task' = [u \in Tasks |-> IF u = t THEN "err"
                                ELSE IF task[u] \in Running THEN "dropped"
                                ELSE task[u]]
    /\ res' = "err"
    /\ errOf' = t
    /\ pc' = "returned"
    /\ UNCHANGED <<sig, sends, writer, tx, listener, sigint, ctrlc, actixSig,
                   rxOf, regOf, exit, parseVars, cfgVars>>

\* line 38: bind succeeds, line 39: run() starts the server and its handlers
WebBind ==
    /\ pc = "join"
    /\ task["web"] = "binding"
    /\ task' = [task EXCEPT !["web"] = "serving"]
    /\ UNCHANGED <<pc, sig, sends, writer, tx, listener, sigint, ctrlc,
                   actixSig, rxOf, regOf, res, errOf, exit, parseVars, cfgVars>>

\* line 38: `.bind(&cfg.listen_addr)?` fails
WebBindFail ==
    /\ pc = "join"
    /\ task["web"] = "binding"
    /\ FailFast("web")

\* lines 39-40: the server stops on the SIGINT its own handler received
WebStop ==
    /\ pc = "join"
    /\ task["web"] = "serving"
    /\ actixSig
    /\ task' = [task EXCEPT !["web"] = "ok"]
    /\ UNCHANGED <<pc, sig, sends, writer, tx, listener, sigint, ctrlc,
                   actixSig, rxOf, regOf, res, errOf, exit, parseVars, cfgVars>>

\* logreader::read_file: returns Ok once it observes `terminating`
ReaderObserve ==
    /\ pc = "join"
    /\ task["reader"] = "running"
    /\ rxOf["reader"]
    /\ sig = "terminating"
    /\ task' = [task EXCEPT !["reader"] = "ok"]
    /\ UNCHANGED <<pc, sig, sends, writer, tx, listener, sigint, ctrlc,
                   actixSig, rxOf, regOf, res, errOf, exit, parseVars, cfgVars>>

\* logreader::read_file: fatal error after too many consecutive failures
ReaderFail ==
    /\ pc = "join"
    /\ task["reader"] = "running"
    /\ FailFast("reader")

\* collectors::run_metadata_collector: returns Ok once it observes `terminating`
CollectorObserve ==
    /\ pc = "join"
    /\ task["collector"] = "running"
    /\ rxOf["collector"]
    /\ sig = "terminating"
    /\ task' = [task EXCEPT !["collector"] = "ok"]
    /\ UNCHANGED <<pc, sig, sends, writer, tx, listener, sigint, ctrlc,
                   actixSig, rxOf, regOf, res, errOf, exit, parseVars, cfgVars>>

\* collectors::run_metadata_collector returns a Result joined by try_join!
CollectorFail ==
    /\ pc = "join"
    /\ task["collector"] = "running"
    /\ FailFast("collector")

\* try_join! yields Ok when the last of the three futures has returned Ok
JoinOk ==
    /\ pc = "join"
    /\ \A t \in Tasks : task[t] = "ok"
    /\ res' = "ok"
    /\ pc' = "returned"
    /\ UNCHANGED <<sig, sends, writer, tx, listener, sigint, ctrlc, actixSig,
                   task, rxOf, regOf, errOf, exit, parseVars, cfgVars>>

\* lines 172-182: main returns Ok(()) or Err(e)
MainReturn ==
    /\ pc = "returned"
    /\ pc' = "done"
    /\ exit' = ExitCode(res)
    /\ UNCHANGED <<sig, sends, writer, tx, listener, sigint, ctrlc, actixSig,
                   task, rxOf, regOf, res, errOf, parseVars, cfgVars>>

(***************************************************************************)
(* Specifications                                                          *)
(***************************************************************************)
ParseIdle == value = <<>> /\ parsed = NotParsed

CfgIdle ==
    /\ explicit = <<>>
    /\ hasura_admin = TRUE
    /\ disabled_collectors = <<>>
    /\ resolved = TRUE

RunIdle ==
    /\ pc = "init"
    /\ sig = "running"
    /\ sends = 0
    /\ writer = "none"
    /\ tx = "none"
    /\ listener = "absent"
    /\ sigint = 0
    /\ ctrlc = FALSE
    /\ actixSig = FALSE
    /\ task = [t \in Tasks |-> "unstarted"]
    /\ rxOf = [t \in Tasks |-> FALSE]
    /\ regOf = [t \in Tasks |-> "none"]
    /\ res = "pending"
    /\ errOf = "none"
    /\ exit = -1

InitParse ==
    /\ value \in Inputs
    /\ parsed = NotParsed
    /\ CfgIdle
    /\ RunIdle

NextParse == ParseRef

SpecParse == InitParse /\ [][NextParse]_vars

InitCfg ==
    /\ explicit \in ExcludeLists
    /\ hasura_admin \in BOOLEAN
    /\ disabled_collectors = explicit
    /\ resolved = FALSE
    /\ ParseIdle
    /\ RunIdle

NextCfg == ResolveDisabled

SpecCfg == InitCfg /\ [][NextCfg]_vars

Init ==
    /\ ParseIdle
    /\ CfgIdle
    /\ RunIdle

Next ==
    \/ SignalHandler
    \/ ListenerInstall
    \/ ListenerFail
    \/ ListenerSend
    \/ Interrupt
    \/ StartJoin
    \/ WebBind
    \/ WebBindFail
    \/ WebStop
    \/ ReaderObserve
    \/ ReaderFail
    \/ CollectorObserve
    \/ CollectorFail
    \/ JoinOk
    \/ MainReturn

Spec == Init /\ [][Next]_vars

\* The tokio runtime polls every ready future; signals and failures are the
\* environment's and carry no fairness.
FairSpec ==
    /\ Spec
    /\ WF_vars(SignalHandler)
    /\ WF_vars(ListenerInstall \/ ListenerFail)
    /\ WF_vars(ListenerSend)
    /\ WF_vars(StartJoin)
    /\ WF_vars(WebBind \/ WebBindFail)
    /\ WF_vars(WebStop)
    /\ WF_vars(ReaderObserve)
    /\ WF_vars(CollectorObserve)
    /\ WF_vars(JoinOk)
    /\ WF_vars(MainReturn)

(***************************************************************************)
(* Properties                                                              *)
(***************************************************************************)
Range(s) == {s[i] : i \in 1..Len(s)}

AllOk == \A t \in Tasks : task[t] = "ok"

SomeErr == \E t \in Tasks : task[t] = "err"

Started == pc \in {"join", "returned", "done"}

\* C1: whenever the joined run has ended with an error, the cancellation
\* signal is `terminating`.
C1_FailFastFlipsSignal == res = "err" => sig = "terminating"

\* C2: no task is ever dropped while still running; a task stops only by
\* returning on its own.
C2_NoTaskDropped == \A t \in Tasks : task[t] # "dropped"

C4_SignalFlippedOnce ==
    /\ [](/\ sends <= 1
          /\ (sig = "terminating" <=> sends = 1)
          /\ writer \in {"none", "listener"}
          /\ tx \in {"none", "listener", "dropped"})
    /\ [][sig = "terminating" => sig' = "terminating"]_vars
    /\ [][sends' # sends => listener = "awaiting" /\ ctrlc]_vars

C4_Witness ==
    /\ sig = "terminating"
    /\ sends = 1
    /\ sigint = MaxInterrupts
    /\ listener = "done"

StrictlySorted(s) == \A i, j \in 1..Len(s) : i < j => Ord(s[i]) < Ord(s[j])

\* C5: the resolved disabled list holds exactly the explicit exclusions, plus
\* all four kinds when no admin secret is configured; it is sorted without
\* duplicates and is the same for every ordering of the exclusions.
C5_DisabledResolution ==
    resolved =>
        LET expected == Range(explicit) \cup
                        (IF hasura_admin THEN {} ELSE Collectors)
        IN  /\ Range(disabled_collectors) = expected
            /\ StrictlySorted(disabled_collectors)
            /\ \A e \in ExcludeLists :
                  Range(e) = Range(explicit) =>
                     resolve_disabled(e, hasura_admin) = disabled_collectors

C5_Witness ==
    /\ resolved
    /\ ~hasura_admin
    /\ explicit = <<"EventTriggers">>
    /\ disabled_collectors = admin_collectors

\* The comma-free segments of s, as pairs of the positions that bound them.
Segs(s) ==
    {g \in (0..Len(s)) \X (1..Len(s) + 1) :
        /\ g[1] < g[2]
        /\ g[1] = 0 \/ s[g[1]] = ","
        /\ g[2] = Len(s) + 1 \/ s[g[2]] = ","
        /\ \A i \in (g[1] + 1)..(g[2] - 1) : s[i] # ","}

EqPos(s, g) == {i \in (g[1] + 1)..(g[2] - 1) : s[i] = "="}

SegAccepted(s, g) == Cardinality(EqPos(s, g)) = 1

SegKey(s, g) == SubSeq(s, g[1] + 1, (CHOOSE i \in EqPos(s, g) : TRUE) - 1)

SegVal(s, g) == SubSeq(s, (CHOOSE i \in EqPos(s, g) : TRUE) + 1, g[2] - 1)

NthSeg(s, n) ==
    CHOOSE g \in Segs(s) : Cardinality({j \in 1..g[1] : s[j] = ","}) = n - 1

ExpectedMap(s) ==
    {<<SegKey(s, g), SegVal(s, g)>> :
        g \in {g \in Segs(s) :
                 ~\E h \in Segs(s) : h[1] > g[1] /\ SegKey(s, h) = SegKey(s, g)}}

\* C6: a token is accepted exactly when it holds one `=`, with the text
\* before it as key and the text after it as value; the input is accepted
\* only when every token is, and then yields the map of these pairs.
C6_ParserAcceptance ==
    parsed.kind # "none" =>
        /\ parsed.kind = "ok" => \A g \in Segs(value) : SegAccepted(value, g)
        /\ ("BAD" \notin Range(value) /\ \A g \in Segs(value) : SegAccepted(value, g))
              => parsed.kind = "ok" /\ parsed.map = ExpectedMap(value)
        /\ \A n \in 1..Len(parsed.kvs) :
              /\ parsed.kvs[n].ok <=> SegAccepted(value, NthSeg(value, n))
              /\ parsed.kvs[n].ok =>
                    /\ parsed.kvs[n].key = SegKey(value, NthSeg(value, n))
                    /\ parsed.kvs[n].val = SegVal(value, NthSeg(value, n))

C6_Witness ==
    /\ value = <<"e","n","v","=","p","r","o","d",",","t","e","a","m","=","d","a","t","a">>
    /\ parsed.kind = "ok"
    /\ parsed.map = {<< <<"e","n","v">>, <<"p","r","o","d">> >>,
                     << <<"t","e","a","m">>, <<"d","a","t","a">> >>}

\* C7: the map parser never aborts; on a malformed value it returns an error.
C7_ParserNeverPanics == parsed.kind # "panic"

\* C8: exit code 0 exactly when all three tasks returned Ok; a failed task
\* gives a non-zero exit; `res` is Ok only when all three are Ok and otherwise
\* carries the error of the first, and only, task that failed.
C8_ExitStatus ==
    /\ exit \in {-1, 0, 1}
    /\ exit # -1 <=> pc = "done"
    /\ exit = 0 => AllOk
    /\ res = "ok" => AllOk
    /\ (pc = "done" /\ AllOk) => exit = 0
    /\ (pc = "done" /\ SomeErr) => exit = 1
    /\ res = "err" =>
          /\ errOf \in Tasks
          /\ \A t \in Tasks : task[t] = "err" <=> t = errOf

C8_Witness ==
    /\ pc = "done"
    /\ exit = 0
    /\ sig = "terminating"
    /\ AllOk

\* C9: after an interrupt, with nothing failing, the signal becomes
\* `terminating`, all three tasks return and the process exits 0.
C9_GracefulShutdown ==
    (sigint >= 1 /\ listener # "failed")
        ~> \/ sig = "terminating" /\ exit = 0
           \/ SomeErr
           \/ listener = "failed"

\* C10: a listener that fails never sends, drops the sender, and its failure
\* leaves main's result alone: the result is that of the three joined tasks.
C10_ListenerFailureIgnored ==
    /\ [](listener = "failed" =>
             sends = 0 /\ sig = "running" /\ writer = "none" /\ tx = "dropped")
    /\ [][(listener' = "failed" /\ listener # "failed") =>
             UNCHANGED <<pc, res, errOf, exit, task>>]_vars
    /\ []((res = "err" <=> SomeErr) /\ (res = "ok" => AllOk))

C10_Witness ==
    /\ listener = "failed"
    /\ pc = "done"
    /\ res = "err"
    /\ exit = 1

====
